---- MODULE Spec2Model ----
(***************************************************************************)
(* The IVT notebook (notebooks/1_compute_IVT.ipynb) as a state machine.    *)
(*                                                                         *)
(* The notebook is a straight-line script: two input-existence checks,     *)
(* two funcs.readNC loads, the element-wise magnitude                      *)
(*     ivt = np.ma.sqrt(uflux.data*uflux.data + vflux.data*vflux.data),    *)
(* the construction of the derived funcs.NCVAR, funcs.saveNC and a plot of *)
(* time step idx = 100.  An uncaught exception ends the run.               *)
(*                                                                         *)
(* Numbers.  Input cells hold integers.  A masked-array cell is the pair   *)
(* (m, d) of its mask bit and its value; the value of a masked cell is not *)
(* part of the masked array's value (numpy prints it as "--") and is kept  *)
(* normalised to 0.  The square root is a correctly rounded fixed-point    *)
(* number with Precision steps per unit (the stand-in for the correctly    *)
(* rounded IEEE square root): sqrt(25) is 5*Precision.                     *)
(***************************************************************************)
EXTENDS Integers, Sequences, FiniteSets, TLC

VARIABLES fs,       \* the filesystem: path -> file content
          pc,       \* the statement the run is at, or "done" / "failed"
          uflux,    \* the notebook's uflux (an NCVAR, or None)
          vflux,    \* the notebook's vflux (an NCVAR, or None)
          ivtArr,   \* the notebook's ivt after line 144 (a masked array)
          ivt,      \* the notebook's ivt after line 145 (an NCVAR)
          heap,     \* the axis lists the NCVARs refer to: reference -> axes
          error,    \* the exception that ended the run, "" when none
          opened,   \* the files opened so far, in order
          trace,    \* the statements run so far, in order
          figure,   \* the panels shown by the plot
          out0      \* the output path's content when the run began

vars == <<fs, pc, uflux, vflux, ivtArr, ivt, heap, error, opened, trace, figure, out0>>

(***************************** bounds ***************************************)
MaxT == 2
MaxLat == 1
MaxLon == 1
MaxSeed == 1
MaxVal == 2
MaxCells == 2
Precision == 10

(************************ program constants *********************************)
UFLUX_FILE == "./uflux_s_6_1984_Jan.nc"
VFLUX_FILE == "./vflux_s_6_1984_Jan.nc"
OUTPUTFILE == "./ivt_s_6_1984_Jan.nc"
U_ID == "p71.162"
V_ID == "p72.162"
idx == 100

UFLUX_MISSING == "UFLUX_FILE not found. Please make sure you downloaded the data file and save to the same dir as the notebook file."
VFLUX_MISSING == "VFLUX_FILE not found. Please make sure you downloaded the data file and save to the same dir as the notebook file."

IVT_ATTRIBUTES(units) ==
    ("name" :> "ivt") @@ ("long_name" :> "integrated vapor transport (IVT)")
    @@ ("standard_name" :> "integrated_vapor_transport")
    @@ ("title" :> "integrated vapor transport (IVT)")
    @@ ("units" :> units)

(************************** masked arrays ***********************************)
Missing == [m |-> TRUE, d |-> 0]
Val(x) == [m |-> FALSE, d |-> x]

Idx(shape) == (1..shape[1]) \X (1..shape[2]) \X (1..shape[3])

NoneArr == [shape |-> <<0, 0, 0>>, cells |-> [c \in {} |-> Missing]]

\* numpy broadcasting of two 3-d shapes: per axis equal, or one of them 1
Broadcastable(s1, s2) ==
    \A k \in 1..3 : s1[k] = s2[k] \/ s1[k] = 1 \/ s2[k] = 1

BShape(s1, s2) ==
    <<IF s1[1] = 1 THEN s2[1] ELSE s1[1],
      IF s1[2] = 1 THEN s2[2] ELSE s1[2],
      IF s1[3] = 1 THEN s2[3] ELSE s1[3]>>

\* the cell of a that takes part in the result's cell c
At(a, c) ==
    a.cells[<<IF a.shape[1] = 1 THEN 1 ELSE c[1],
              IF a.shape[2] = 1 THEN 1 ELSE c[2],
              IF a.shape[3] = 1 THEN 1 ELSE c[3]>>]

\* the mask of the second operand is dropped
AddCell_DropMask(x, y) == IF x.m THEN [m |-> TRUE, d |-> 0] ELSE [m |-> FALSE, d |-> x.d + y.d]

MulCell(x, y) == IF x.m \/ y.m THEN Missing ELSE Val(x.d * y.d)
AddCell(x, y) == IF x.m \/ y.m THEN Missing ELSE Val(x.d + y.d)

\* a * b on masked arrays
ma_multiply(a, b) ==
    LET s == BShape(a.shape, b.shape)
    IN  [shape |-> s, cells |-> [c \in Idx(s) |-> MulCell(At(a, c), At(b, c))]]

\* a + b on masked arrays
ma_add(a, b) ==
    LET s == BShape(a.shape, b.shape)
    IN  [shape |-> s, cells |-> [c \in Idx(s) |-> AddCell(At(a, c), At(b, c))]]

\* floor(sqrt(n)) for n >= 0
RECURSIVE ISqrt(_)
ISqrt(n) ==
    IF n < 2 THEN n
    ELSE LET s == 2 * ISqrt(n \div 4)
         IN  IF (s + 1) * (s + 1) <= n THEN s + 1 ELSE s

\* sqrt(x), rounded to the nearest multiple of 1/Precision
SqrtFx(x) == (ISqrt(4 * Precision * Precision * x) + 1) \div 2

\* np.ma.sqrt of one cell: masked stays masked, a negative value is masked
SqrtCell(x) == IF x.m \/ x.d < 0 THEN Missing ELSE Val(SqrtFx(x.d))

ma_sqrt(a) == [shape |-> a.shape, cells |-> [c \in Idx(a.shape) |-> SqrtCell(a.cells[c])]]

\* sqrt(u*u + u*v): the second square takes the wrong factor
Magnitude_CrossTerm(u, v) == ma_sqrt(ma_add(ma_multiply(u, u), ma_multiply(u, v)))

\* sqrt(u*u + v): the second operand is not squared
Magnitude_UnsquaredV(u, v) == ma_sqrt(ma_add(ma_multiply(u, u), v))

\* line 144: np.ma.sqrt(u*u + v*v)
Magnitude(u, v) == ma_sqrt(ma_add(ma_multiply(u, u), ma_multiply(v, v)))

(************************ fields, files, objects ****************************)
None == "None"
\* an axis list is the sequence of the axes, in the order of the dimensions
NoAxes == <<>>
NoAttributes == [a \in {} |-> ""]

\* funcs.NCVAR(data, id, axislist, attributes): the object keeps what it is
\* given; axislist is kept as the reference it is given, not as a copy
NCVAR(data, id, axislist, attributes) ==
    [data |-> data, id |-> id, axislist |-> axislist, attributes |-> attributes]

NoneVar == NCVAR(NoneArr, None, None, NoAttributes)

\* the attribute is never found
getattr_NeverFound(obj, name, default) == default

\* getattr(obj, name, default); an NCVAR carries its attributes as object
\* attributes
getattr(obj, name, default) ==
    IF name \in DOMAIN obj.attributes THEN obj.attributes[name] ELSE default

\* NCVAR.getTime(): the time axis of the object's axis list
getTime(var) == heap[var.axislist][1].values

Absent == [exists |-> FALSE, id |-> "", data |-> NoneArr, axes |-> NoAxes,
           attributes |-> NoAttributes]

FileOf(id, field) ==
    [exists |-> TRUE, id |-> id, data |-> field.data, axes |-> field.axes,
     attributes |-> field.attributes]

\* os.path.exists(path)
os_path_exists(path) == fs[path].exists

\* the file at path holds the variable varid
HasVariable(path, varid) == fs[path].id = varid

\* funcs.readNC(path, varid) on a file that holds varid; ref is the axis list
\* it allocates
readNC(path, varid, ref) == NCVAR(fs[path].data, varid, ref, fs[path].attributes)

VAR_NOT_FOUND(varid) ==
    IF varid = U_ID THEN "VariableNotFound: p71.162" ELSE "VariableNotFound: p72.162"

\* the file funcs.saveNC(path, var) writes
Saved(var) ==
    [exists |-> TRUE, id |-> var.id, data |-> var.data, axes |-> heap[var.axislist],
     attributes |-> var.attributes]

\* the file a failed write may leave behind: created, nothing in it
Truncated == [Absent EXCEPT !.exists = TRUE]

AxesShape(axes) == <<Len(axes[1].values), Len(axes[2].values), Len(axes[3].values)>>

(***************************** inputs ***************************************)
Paths == {UFLUX_FILE, VFLUX_FILE, OUTPUTFILE}
Refs == {"uflux.axislist", "vflux.axislist"}

Shapes ==
    {<<t, la, lo>> : t \in (1..MaxT) \cup {idx + 1}, la \in 1..MaxLat, lo \in 1..MaxLon}

PatternCells == <<Val(3), Val(4), Missing, Val(-2), Val(0)>>

\* the cell c of the data pattern numbered seed
Pattern(seed, c) ==
    PatternCells[((seed + (c[1] - 1) + 2 * (c[2] - 1) + 3 * (c[3] - 1)) % 5) + 1]

AxesOf(shape, seed) ==
    <<[name |-> "time",      values |-> [t \in 1..shape[1] |-> 1000 * seed + 6 * (t - 1)]],
      [name |-> "latitude",  values |-> [i \in 1..shape[2] |-> 10 * seed + i]],
      [name |-> "longitude", values |-> [j \in 1..shape[3] |-> 10 * seed + j]]>>

AttributeSets ==
    {("long_name" :> "water vapour flux"),
     ("long_name" :> "water vapour flux") @@ ("units" :> ""),
     ("long_name" :> "water vapour flux") @@ ("units" :> "kg m**-1 s**-1")}

MkField(shape, seed, attributes) ==
    [data |-> [shape |-> shape, cells |-> [c \in Idx(shape) |-> Pattern(seed, c)]],
     axes |-> AxesOf(shape, seed),
     attributes |-> attributes]

Fields ==
    {MkField(s, k, a) : s \in Shapes, k \in 0..MaxSeed, a \in AttributeSets}

SmallFields ==
    {MkField(<<1, 1, 1>>, k, a) : k \in 0..MaxSeed, a \in AttributeSets}

OtherId(varid) == IF varid = U_ID THEN V_ID ELSE U_ID

\* what may lie at an input path: nothing, a file holding the variable, or a
\* file holding the other variable
InputFiles(varid) ==
    {Absent} \cup {FileOf(varid, f) : f \in Fields}
             \cup {FileOf(OtherId(varid), f) : f \in SmallFields}

\* an output file left by an earlier run
StaleFile ==
    [exists |-> TRUE, id |-> "ivt",
     data |-> [shape |-> <<1, 1, 1>>, cells |-> [c \in Idx(<<1, 1, 1>>) |-> Val(7)]],
     axes |-> AxesOf(<<1, 1, 1>>, 0),
     attributes |-> IVT_ATTRIBUTES("stale")]

Init ==
    /\ \E fu \in InputFiles(U_ID), fv \in InputFiles(V_ID), fo \in {Absent, StaleFile} :
          /\ fs = (UFLUX_FILE :> fu) @@ (VFLUX_FILE :> fv) @@ (OUTPUTFILE :> fo)
          /\ out0 = fo
    /\ pc = "locate_u"
    /\ uflux = NoneVar
    /\ vflux = NoneVar
    /\ ivtArr = NoneArr
    /\ ivt = NoneVar
    /\ heap = [r \in Refs |-> NoAxes]
    /\ error = ""
    /\ opened = <<>>
    /\ trace = <<>>
    /\ figure = <<>>

(***************************** the run **************************************)
\* the missing u-file is not reported
LocateU_NoRaise ==
    /\ pc = "locate_u"
    /\ trace' = Append(trace, "locate_u")
    /\ pc' = "locate_v"
    /\ UNCHANGED <<fs, uflux, vflux, ivtArr, ivt, heap, error, opened, figure, out0>>

\* lines 69-70
LocateU ==
    /\ pc = "locate_u"
    /\ trace' = Append(trace, "locate_u")
    /\ IF ~os_path_exists(UFLUX_FILE)
       THEN pc' = "failed" /\ error' = UFLUX_MISSING
       ELSE pc' = "locate_v" /\ error' = error
    /\ UNCHANGED <<fs, uflux, vflux, ivtArr, ivt, heap, opened, figure, out0>>

\* lines 71-72
LocateV ==
    /\ pc = "locate_v"
    /\ trace' = Append(trace, "locate_v")
    /\ IF ~os_path_exists(VFLUX_FILE)
       THEN pc' = "failed" /\ error' = VFLUX_MISSING
       ELSE pc' = "load_u" /\ error' = error
    /\ UNCHANGED <<fs, uflux, vflux, ivtArr, ivt, heap, opened, figure, out0>>

\* line 82 (and the prints of lines 89-120, which change nothing)
LoadU ==
    /\ pc = "load_u"
    /\ trace' = Append(trace, "load_u")
    /\ opened' = Append(opened, UFLUX_FILE)
    /\ IF HasVariable(UFLUX_FILE, U_ID)
       THEN /\ uflux' = readNC(UFLUX_FILE, U_ID, "uflux.axislist")
            /\ heap' = [heap EXCEPT !["uflux.axislist"] = fs[UFLUX_FILE].axes]
            /\ pc' = "load_v"
            /\ error' = error
       ELSE /\ pc' = "failed"
            /\ error' = VAR_NOT_FOUND(U_ID)
            /\ UNCHANGED <<uflux, heap>>
    /\ UNCHANGED <<fs, vflux, ivtArr, ivt, figure, out0>>

\* the missing variable is reported and the run goes on
LoadV_NoRaise ==
    /\ pc = "load_v"
    /\ trace' = Append(trace, "load_v")
    /\ opened' = Append(opened, VFLUX_FILE)
    /\ IF fs[VFLUX_FILE].id = V_ID
       THEN /\ vflux' = NCVAR(fs[VFLUX_FILE].data, V_ID, "vflux.axislist",
                              fs[VFLUX_FILE].attributes)
            /\ heap' = [heap EXCEPT !["vflux.axislist"] = fs[VFLUX_FILE].axes]
            /\ error' = error
       ELSE /\ error' = "VariableNotFound: p72.162"
            /\ UNCHANGED <<vflux, heap>>
    /\ pc' = "compute"
    /\ UNCHANGED <<fs, uflux, ivtArr, ivt, figure, out0>>

\* line 83 (and the prints of lines 129-130)
LoadV ==
    /\ pc = "load_v"
    /\ trace' = Append(trace, "load_v")
    /\ opened' = Append(opened, VFLUX_FILE)
    /\ IF HasVariable(VFLUX_FILE, V_ID)
       THEN /\ vflux' = readNC(VFLUX_FILE, V_ID, "vflux.axislist")
            /\ heap' = [heap EXCEPT !["vflux.axislist"] = fs[VFLUX_FILE].axes]
            /\ pc' = "compute"
            /\ error' = error
       ELSE /\ pc' = "failed"
            /\ error' = VAR_NOT_FOUND(V_ID)
            /\ UNCHANGED <<vflux, heap>>
    /\ UNCHANGED <<fs, uflux, ivtArr, ivt, figure, out0>>

\* shapes that do not broadcast are let through with nothing computed
ComputeIVT_NoRaise ==
    /\ pc = "compute"
    /\ trace' = Append(trace, "compute")
    /\ ivtArr' = IF Broadcastable(uflux.data.shape, vflux.data.shape)
                 THEN ma_sqrt(ma_add(ma_multiply(uflux.data, uflux.data),
                                     ma_multiply(vflux.data, vflux.data)))
                 ELSE uflux.data
    /\ pc' = "make"
    /\ UNCHANGED <<fs, uflux, vflux, ivt, heap, error, opened, figure, out0>>

\* line 144
ComputeIVT ==
    /\ pc = "compute"
    /\ trace' = Append(trace, "compute")
    /\ IF Broadcastable(uflux.data.shape, vflux.data.shape)
       THEN /\ ivtArr' = Magnitude(uflux.data, vflux.data)
            /\ pc' = "make"
            /\ error' = error
       ELSE /\ pc' = "failed"
            /\ error' = "ValueError: operands could not be broadcast together"
            /\ UNCHANGED ivtArr
    /\ UNCHANGED <<fs, uflux, vflux, ivt, heap, opened, figure, out0>>

\* the axes are taken from vflux
MakeIVT_AxesOfV ==
    /\ pc = "make"
    /\ trace' = Append(trace, "make")
    /\ ivt' = [data |-> ivtArr, id |-> "ivt", axislist |-> vflux.axislist,
               attributes |-> IVT_ATTRIBUTES(IF "units" \in DOMAIN uflux.attributes
                                             THEN uflux.attributes["units"] ELSE "")]
    /\ pc' = "write"
    /\ UNCHANGED <<fs, uflux, vflux, ivtArr, heap, error, opened, figure, out0>>

\* the save is left out
MakeIVT_SkipWrite ==
    /\ pc = "make"
    /\ trace' = Append(trace, "make")
    /\ ivt' = [data |-> ivtArr, id |-> "ivt", axislist |-> uflux.axislist,
               attributes |-> IVT_ATTRIBUTES(IF "units" \in DOMAIN uflux.attributes
                                             THEN uflux.attributes["units"] ELSE "")]
    /\ pc' = "plot"
    /\ UNCHANGED <<fs, uflux, vflux, ivtArr, heap, error, opened, figure, out0>>

\* lines 145-148
MakeIVT ==
    /\ pc = "make"
    /\ trace' = Append(trace, "make")
    /\ ivt' = NCVAR(ivtArr, "ivt", uflux.axislist,
                    IVT_ATTRIBUTES(getattr(uflux, "units", "")))
    /\ pc' = "write"
    /\ UNCHANGED <<fs, uflux, vflux, ivtArr, heap, error, opened, figure, out0>>

\* uflux is saved in place of ivt
Save_WrongVar ==
    /\ pc = "write"
    /\ trace' = Append(trace, "write")
    /\ opened' = Append(opened, OUTPUTFILE)
    /\ fs' = [fs EXCEPT ![OUTPUTFILE] =
                 [exists |-> TRUE, id |-> uflux.id, data |-> uflux.data,
                  axes |-> heap[uflux.axislist], attributes |-> uflux.attributes]]
    /\ pc' = "plot"
    /\ UNCHANGED <<uflux, vflux, ivtArr, ivt, heap, error, figure, out0>>

\* lines 152-153.  With data shaped like the axes the file is written.  With
\* data shaped otherwise (a broadcast result) the writer either writes, or
\* raises and leaves the path as it was or a truncated file behind.
Save ==
    /\ pc = "write"
    /\ trace' = Append(trace, "write")
    /\ opened' = Append(opened, OUTPUTFILE)
    /\ \E outcome \in (IF ivt.data.shape = AxesShape(heap[ivt.axislist])
                       THEN {"written"}
                       ELSE {"written", "raised", "raised_truncated"}) :
          IF outcome = "written"
          THEN /\ fs' = [fs EXCEPT ![OUTPUTFILE] = Saved(ivt)]
               /\ pc' = "plot"
               /\ error' = error
          ELSE /\ fs' = [fs EXCEPT ![OUTPUTFILE] =
                            IF outcome = "raised" THEN @ ELSE Truncated]
               /\ pc' = "failed"
               /\ error' = "WriteError: data do not fit the axes"
    /\ UNCHANGED <<uflux, vflux, ivtArr, ivt, heap, figure, out0>>

\* x[idx] on a sequence or on the first axis of an array is an IndexError
\* unless its length exceeds idx
InRange(n) == n > idx

\* lines 156-177
Plot ==
    /\ pc = "plot"
    /\ trace' = Append(trace, "plot")
    /\ IF /\ InRange(Len(getTime(uflux)))
          /\ InRange(uflux.data.shape[1])
          /\ InRange(vflux.data.shape[1])
          /\ InRange(ivt.data.shape[1])
       THEN /\ figure' = [ii \in 1..3 |->
                            [time_str |-> getTime(uflux)[idx + 1],
                             title |-> <<"U", "V", "IVT">>[ii]]]
            /\ pc' = "done"
            /\ error' = error
       ELSE /\ pc' = "failed"
            /\ error' = "IndexError: index 100 is out of bounds"
            /\ UNCHANGED figure
    /\ UNCHANGED <<fs, uflux, vflux, ivtArr, ivt, heap, opened, out0>>

Next ==
    \/ LocateU
    \/ LocateV
    \/ LoadU
    \/ LoadV
    \/ ComputeIVT
    \/ MakeIVT
    \/ Save
    \/ Plot

Spec == Init /\ [][Next]_vars

(******************* the magnitude on its own *******************************)
\* grids small enough to take every content
MagShapes ==
    {s \in {<<t, la, lo>> : t \in 1..MaxT, la \in 1..MaxLat, lo \in 1..MaxLon} :
        s[1] * s[2] * s[3] <= MaxCells}

CellVals == {Missing} \cup {Val(x) : x \in (-MaxVal)..MaxVal}

ArrayOf(shape, cells) == [shape |-> shape, cells |-> cells]

\* the run as it stands before line 144, the two inputs being any two equally
\* shaped fields
MagInit ==
    /\ \E s \in MagShapes :
         \E cu \in [Idx(s) -> CellVals], cv \in [Idx(s) -> CellVals] :
            LET a  == ("long_name" :> "water vapour flux")
                fu == [data |-> ArrayOf(s, cu), axes |-> AxesOf(s, 0), attributes |-> a]
                fv == [data |-> ArrayOf(s, cv), axes |-> AxesOf(s, 0), attributes |-> a]
            IN  /\ fs = (UFLUX_FILE :> FileOf(U_ID, fu)) @@ (VFLUX_FILE :> FileOf(V_ID, fv))
                         @@ (OUTPUTFILE :> Absent)
                /\ uflux = NCVAR(fu.data, U_ID, "uflux.axislist", a)
                /\ vflux = NCVAR(fv.data, V_ID, "vflux.axislist", a)
                /\ heap = ("uflux.axislist" :> fu.axes) @@ ("vflux.axislist" :> fv.axes)
    /\ out0 = Absent
    /\ pc = "compute"
    /\ ivtArr = NoneArr
    /\ ivt = NoneVar
    /\ error = ""
    /\ opened = <<UFLUX_FILE, VFLUX_FILE>>
    /\ trace = <<"locate_u", "locate_v", "load_u", "load_v">>
    /\ figure = <<>>

MagNext == ComputeIVT

SpecMag == MagInit /\ [][MagNext]_vars

(***************************** the claims ***********************************)
Range(seq) == {seq[i] : i \in 1..Len(seq)}
Ran(step) == step \in Range(trace)
Ended == pc \in {"done", "failed"}
SameShape == uflux.data.shape = vflux.data.shape

\* r is x's square root to within half a step of 1/Precision: r >= 0 and
\* (r/Precision)^2 = x up to that rounding (exactly so when x is a square)
IsRoot(r, x) ==
    /\ r >= 0
    /\ r * r - r <= Precision * Precision * x
    /\ Precision * Precision * x <= r * r + r

\* the cell that the cells a of u and b of v alone determine
IsMagnitudeCell(r, a, b) ==
    IF a.m \/ b.m THEN r.m ELSE ~r.m /\ IsRoot(r.d, a.d * a.d + b.d * b.d)

\* C1: for equally shaped u and v the derived array has their shape and each
\* of its cells holds the square root of u^2 + v^2 of the same cell of u and
\* v, a non-negative value, whatever the other cells hold.
C1_ElementWiseMagnitude ==
    (Ran("compute") /\ SameShape) =>
        /\ ivtArr.shape = uflux.data.shape
        /\ DOMAIN ivtArr.cells = Idx(uflux.data.shape)
        /\ \A c \in Idx(uflux.data.shape) :
              (~uflux.data.cells[c].m /\ ~vflux.data.cells[c].m) =>
                  /\ ~ivtArr.cells[c].m
                  /\ IsRoot(ivtArr.cells[c].d,
                            uflux.data.cells[c].d * uflux.data.cells[c].d
                            + vflux.data.cells[c].d * vflux.data.cells[c].d)

\* two cells computed, with different inputs and different roots
C1_Witness ==
    /\ Ran("compute")
    /\ uflux.data.shape = <<2, 1, 1>>
    /\ uflux.data.cells[<<1, 1, 1>>] = Val(1) /\ vflux.data.cells[<<1, 1, 1>>] = Val(-2)
    /\ uflux.data.cells[<<2, 1, 1>>] = Val(2) /\ vflux.data.cells[<<2, 1, 1>>] = Val(0)
    /\ ivtArr.cells[<<1, 1, 1>>].d > ivtArr.cells[<<2, 1, 1>>].d
    /\ ivtArr.cells[<<2, 1, 1>>].d = 2 * Precision

\* C2: a cell masked in u or in v is masked in the derived array.
C2_MaskPropagates ==
    (Ran("compute") /\ SameShape) =>
        \A c \in Idx(uflux.data.shape) :
            (uflux.data.cells[c].m \/ vflux.data.cells[c].m) => ivtArr.cells[c].m

\* v alone is masked in one cell, which comes out masked beside a cell that
\* does not
C2_Witness ==
    /\ Ran("compute")
    /\ uflux.data.shape = <<2, 1, 1>>
    /\ ~uflux.data.cells[<<1, 1, 1>>].m /\ vflux.data.cells[<<1, 1, 1>>].m
    /\ ivtArr.cells[<<1, 1, 1>>].m
    /\ ~ivtArr.cells[<<2, 1, 1>>].m

\* C3: a missing u-file is reported, by the error naming the u-file, before
\* any file is opened, also when the v-file is missing too; a missing v-file
\* beside a u-file is reported, by the error naming the v-file, before any
\* file is opened.
C3_LocatorOrder ==
    /\ (~fs[UFLUX_FILE].exists /\ pc # "locate_u") =>
          /\ pc = "failed" /\ error = UFLUX_MISSING
          /\ trace = <<"locate_u">> /\ opened = <<>>
    /\ (fs[UFLUX_FILE].exists /\ ~fs[VFLUX_FILE].exists /\ pc \notin {"locate_u", "locate_v"}) =>
          /\ pc = "failed" /\ error = VFLUX_MISSING
          /\ trace = <<"locate_u", "locate_v">> /\ opened = <<>>
    /\ error = UFLUX_MISSING => ~fs[UFLUX_FILE].exists
    /\ error = VFLUX_MISSING => ~fs[VFLUX_FILE].exists

\* both files are missing and the u-file is the one reported
C3_Witness ==
    /\ ~fs[UFLUX_FILE].exists /\ ~fs[VFLUX_FILE].exists
    /\ error = UFLUX_MISSING /\ opened = <<>>

FatalErrors == {UFLUX_MISSING, VFLUX_MISSING, VAR_NOT_FOUND(U_ID), VAR_NOT_FOUND(V_ID)}

\* C4: a run that raised a missing-input-file or a variable-not-found error
\* has stopped there: no step is left to run, none of compute, make, write
\* and plot has run, no magnitude and no derived field exists, and the output
\* path holds what it held when the run began.
C4_FatalErrorsStop ==
    error \in FatalErrors =>
        /\ pc = "failed"
        /\ ~ENABLED Next
        /\ Range(trace) \cap {"compute", "make", "write", "plot"} = {}
        /\ ivtArr = NoneArr /\ ivt = NoneVar /\ figure = <<>>
        /\ fs[OUTPUTFILE] = out0
        /\ OUTPUTFILE \notin Range(opened)

\* the v-file lacks its variable and an earlier output file is left alone
C4_Witness ==
    /\ error = VAR_NOT_FOUND(V_ID)
    /\ uflux # NoneVar
    /\ out0 = StaleFile /\ fs[OUTPUTFILE] = StaleFile

FailedAtCompute ==
    /\ pc = "failed"
    /\ error = "ValueError: operands could not be broadcast together"
    /\ trace = <<"locate_u", "locate_v", "load_u", "load_v", "compute">>
    /\ ivtArr = NoneArr /\ ivt = NoneVar
    /\ fs[OUTPUTFILE] = out0

\* C5 as stated: whenever the two loaded fields differ in shape the run fails
\* at line 144, with no derived field and the output path untouched.
C5_AnyMismatchFails ==
    (Ran("compute") /\ ~SameShape) => FailedAtCompute

\* C5: whenever the shapes of the two loaded fields do not broadcast (on some
\* axis the lengths differ and neither is 1) the run fails at line 144 with
\* the numeric layer's error, uncaught, with no derived field and the output
\* path untouched.
C5_UnbroadcastableFails ==
    (Ran("compute") /\ ~Broadcastable(uflux.data.shape, vflux.data.shape)) => FailedAtCompute

\* 2 time steps against 101
C5_Witness ==
    /\ FailedAtCompute
    /\ uflux.data.shape[1] = 2 /\ vflux.data.shape[1] = idx + 1

OutputWritten == Ran("write") /\ error # "WriteError: data do not fit the axes"

\* C6: the derived field's axis list is the very list of uflux (the same
\* reference), which still holds the u-file's time, latitude and longitude
\* axes in that order; the written file carries those axes; and this stays so
\* to the end of the run.
C6_AxesOfU ==
    /\ Ran("make") =>
          /\ ivt.axislist = uflux.axislist
          /\ ivt.axislist = "uflux.axislist"
          /\ heap[ivt.axislist] = fs[UFLUX_FILE].axes
          /\ <<heap[ivt.axislist][1].name, heap[ivt.axislist][2].name,
               heap[ivt.axislist][3].name>> = <<"time", "latitude", "longitude">>
    /\ OutputWritten => fs[OUTPUTFILE].axes = fs[UFLUX_FILE].axes

\* a finished run whose v-file had other axes than its u-file
C6_Witness ==
    /\ pc = "done"
    /\ fs[VFLUX_FILE].axes # fs[UFLUX_FILE].axes
    /\ fs[OUTPUTFILE].axes = fs[UFLUX_FILE].axes
    /\ ivt.axislist = uflux.axislist

HasUnits(file) == "units" \in DOMAIN file.attributes

\* C7 as stated: the derived field's metadata is the fixed block with units U,
\* U being u's units whenever u has that attribute and being empty only when
\* u has none.
C7_UnitsEmptyOnlyIfAbsent ==
    Ran("make") =>
        /\ \E U \in {"", "kg m**-1 s**-1"} : ivt.attributes = IVT_ATTRIBUTES(U)
        /\ HasUnits(fs[UFLUX_FILE]) => ivt.attributes["units"] = fs[UFLUX_FILE].attributes["units"]
        /\ ivt.attributes["units"] = "" => ~HasUnits(fs[UFLUX_FILE])

\* C7: the derived field's metadata is the fixed block with units U, U being
\* u's units whenever u has that attribute (the empty string when that is what
\* the attribute holds) and the empty string when u has none; v's metadata
\* has no part in it.
C7_Metadata ==
    Ran("make") =>
        /\ ivt.id = "ivt"
        /\ DOMAIN ivt.attributes = {"name", "long_name", "standard_name", "title", "units"}
        /\ ivt.attributes["name"] = "ivt"
        /\ ivt.attributes["long_name"] = "integrated vapor transport (IVT)"
        /\ ivt.attributes["standard_name"] = "integrated_vapor_transport"
        /\ ivt.attributes["title"] = "integrated vapor transport (IVT)"
        /\ HasUnits(fs[UFLUX_FILE]) => ivt.attributes["units"] = fs[UFLUX_FILE].attributes["units"]
        /\ ~HasUnits(fs[UFLUX_FILE]) => ivt.attributes["units"] = ""
        /\ OutputWritten => fs[OUTPUTFILE].attributes = ivt.attributes

\* u has units, v has none, and the derived field has u's
C7_Witness ==
    /\ Ran("make")
    /\ HasUnits(fs[UFLUX_FILE]) /\ ~HasUnits(fs[VFLUX_FILE])
    /\ ivt.attributes["units"] = "kg m**-1 s**-1"

InputsFit ==
    /\ fs[UFLUX_FILE].exists /\ fs[UFLUX_FILE].id = U_ID
    /\ fs[VFLUX_FILE].exists /\ fs[VFLUX_FILE].id = V_ID
    /\ fs[UFLUX_FILE].data.shape = fs[VFLUX_FILE].data.shape

OneCell(file, x) ==
    /\ file.data.shape = <<1, 1, 1>>
    /\ file.data.cells[<<1, 1, 1>>] = Val(x)

\* C8: with both input files in place, holding equally shaped u and v, the
\* run ends with an output file that holds the variable "ivt", the u-file's
\* axes and, cell by cell, the magnitude of u and v; for u = [[3]] and
\* v = [[4]] on one cell that is [[5]].
C8_EndToEnd ==
    (InputsFit /\ Ended) =>
        /\ fs[OUTPUTFILE].exists
        /\ fs[OUTPUTFILE].id = "ivt"
        /\ fs[OUTPUTFILE].axes = fs[UFLUX_FILE].axes
        /\ fs[OUTPUTFILE].data.shape = fs[UFLUX_FILE].data.shape
        /\ \A c \in Idx(fs[UFLUX_FILE].data.shape) :
              IsMagnitudeCell(fs[OUTPUTFILE].data.cells[c],
                              fs[UFLUX_FILE].data.cells[c], fs[VFLUX_FILE].data.cells[c])
        /\ (OneCell(fs[UFLUX_FILE], 3) /\ OneCell(fs[VFLUX_FILE], 4)) =>
              fs[OUTPUTFILE].data.cells[<<1, 1, 1>>] = Val(5 * Precision)

\* the one-cell run of 3 and 4 has ended, in the plot, with 5 in the file
C8_Witness ==
    /\ Ended
    /\ OneCell(fs[UFLUX_FILE], 3) /\ OneCell(fs[VFLUX_FILE], 4)
    /\ OneCell(fs[OUTPUTFILE], 5 * Precision)
    /\ out0 = Absent

Order == <<"locate_u", "locate_v", "load_u", "load_v", "compute", "make", "write", "plot">>

\* the statements run are the first ones of the notebook, in its order, each
\* once; a run under way is at the next one and can take it
OnePass ==
    /\ Len(trace) <= Len(Order)
    /\ trace = SubSeq(Order, 1, Len(trace))
    /\ ~Ended => /\ Len(trace) < Len(Order)
                 /\ pc = Order[Len(trace) + 1]
                 /\ ENABLED Next
    /\ Ended => ~ENABLED Next
    /\ pc = "done" => trace = Order /\ error = ""
    /\ pc = "failed" => trace # <<>> /\ error # ""
    /\ fs[OUTPUTFILE] # out0 => Ran("write")
    /\ Ran("write") => (uflux # NoneVar /\ vflux # NoneVar /\ ivtArr # NoneArr /\ ivt # NoneVar)
    /\ Ran("plot") => OutputWritten
    /\ figure # <<>> => pc = "done"

\* C10 as stated: one ordered pass that ends, and a run that fails has failed
\* in the locator's two checks or in the loader's variable check.
C10_OnlyThreeStops ==
    /\ OnePass
    /\ pc = "failed" => trace[Len(trace)] \in {"locate_u", "locate_v", "load_u", "load_v"}

\* C10: one ordered pass that ends; the write happens at most once, after
\* both loads and the compute, the plot after the write; and a run that fails
\* has failed in the locator's two checks, in the loader's variable check, at
\* line 144 on shapes that do not broadcast, in the write of a broadcast
\* result that does not fit u's axes, or in the plot when a field has no time
\* step 100.
C10_OnePassAndItsStops ==
    /\ OnePass
    /\ pc = "failed" =>
          LET last == trace[Len(trace)]
          IN  \/ last = "locate_u" /\ ~fs[UFLUX_FILE].exists
              \/ last = "locate_v" /\ ~fs[VFLUX_FILE].exists
              \/ last = "load_u" /\ fs[UFLUX_FILE].id # U_ID
              \/ last = "load_v" /\ fs[VFLUX_FILE].id # V_ID
              \/ last = "compute" /\ ~Broadcastable(uflux.data.shape, vflux.data.shape)
              \/ last = "write" /\ ivt.data.shape # uflux.data.shape
              \/ last = "plot" /\ (uflux.data.shape[1] <= idx \/ vflux.data.shape[1] <= idx)

\* a run on 101 time steps that came through all eight statements
C10_Witness ==
    /\ pc = "done"
    /\ trace = Order
    /\ Len(figure) = 3
    /\ uflux.data.shape[1] = idx + 1

====
